---- MODULE Spec2Model ----
(***************************************************************************)
(* Model of custom_components/husqvarna_automower/vacuum.py: the vacuum    *)
(* entity that presents a Husqvarna Automower to Home Assistant.           *)
(*                                                                         *)
(* The entity reads the snapshot the session holds for its mower           *)
(* (session.data["data"][idx]) through its property accessors, and         *)
(* forwards the host's commands to session.action(mower_id, payload,       *)
(* command_type).  Every command handler is a coroutine that runs without  *)
(* interruption up to `await self.session.action(...)` and is resumed when *)
(* the session answers.                                                    *)
(***************************************************************************)
EXTENDS Integers, Sequences, FiniteSets, TLC

VARIABLES
    data,   \* session.data["data"]: idx -> [id, attributes]
    calls,  \* the calls session.action has received, in order
    tasks,  \* the command invocations made by the host, in order of invocation
    log,    \* the records written through _LOGGER.error
    ret     \* what the step just taken handed back to the host

vars == <<data, calls, tasks, log, ret>>

\* Python's None in a str-typed slot; no str of the model equals it.
None == "#None"

\* Python's None in a datetime-typed slot.
NoneDatetime == [none |-> TRUE]

(***************************************************************************)
(* The vendor's vocabulary (the values the accessors compare against).     *)
(***************************************************************************)
MowerStates ==
    {"PAUSED", "WAIT_UPDATING", "WAIT_POWER_UP", "RESTRICTED", "IN_OPERATION",
     "OFF", "STOPPED", "ERROR", "FATAL_ERROR", "ERROR_AT_POWER_UP",
     "NOT_APPLICABLE", "UNKNOWN"}

MowerActivities ==
    {"PARKED_IN_CS", "CHARGING", "MOWING", "LEAVING", "GOING_HOME",
     "STOPPED_IN_GARDEN", "UNKNOWN", "NOT_APPLICABLE"}

RestrictedReasons ==
    {"WEEK_SCHEDULE", "PARK_OVERRIDE", "SENSOR", "DAILY_LIMIT", "NOT_APPLICABLE"}

\* homeassistant.components.vacuum state constants
STATE_CLEANING == "cleaning"
STATE_DOCKED == "docked"
STATE_ERROR == "error"
STATE_IDLE == "idle"
STATE_PAUSED == "paused"
STATE_RETURNING == "returning"

DeviceStates ==
    {STATE_CLEANING, STATE_DOCKED, STATE_ERROR, STATE_IDLE, STATE_PAUSED,
     STATE_RETURNING}

\* const.ERRORCODES: error code -> message (an excerpt of the table).
ERRORCODES ==
    [c \in {0, 1, 2} |->
        CASE c = 0 -> "Unexpected error"
          [] c = 1 -> "Outside working area"
          [] c = 2 -> "No loop signal"]

\* dict.get(key): the value, or None when the key is absent.
DictGet(d, key) == IF key \in DOMAIN d THEN d[key] ELSE None

\* AutomowerEntity.get_mower_attributes(self)
get_mower_attributes(self) == data[self].attributes

\* AutomowerEntity.mower_id
mower_id(self) == data[self].id

(***************************************************************************)
(* The property accessors.  `self` is the entity's idx.                    *)
(***************************************************************************)

\* HusqvarnaAutomowerEntity.state with STOPPED_IN_GARDEN left out of the last list.
state_without_stopped_in_garden(self) ==
    LET mower_attributes == get_mower_attributes(self) IN
    IF mower_attributes.mower.state \in {"PAUSED"} THEN STATE_PAUSED
    ELSE IF mower_attributes.mower.state \in {"WAIT_UPDATING", "WAIT_POWER_UP"}
    THEN STATE_IDLE
    ELSE IF \/ mower_attributes.mower.state = "RESTRICTED"
            \/ mower_attributes.mower.activity \in {"PARKED_IN_CS", "CHARGING"}
    THEN STATE_DOCKED
    ELSE IF mower_attributes.mower.activity \in {"MOWING", "LEAVING"}
    THEN STATE_CLEANING
    ELSE IF mower_attributes.mower.activity = "GOING_HOME" THEN STATE_RETURNING
    ELSE IF \/ mower_attributes.mower.state \in
                {"FATAL_ERROR", "ERROR", "ERROR_AT_POWER_UP", "NOT_APPLICABLE",
                 "UNKNOWN", "STOPPED", "OFF"}
            \/ mower_attributes.mower.activity \in {"UNKNOWN", "NOT_APPLICABLE"}
    THEN STATE_ERROR
    ELSE None

\* HusqvarnaAutomowerEntity.state with the activity checks moved before the
\* RESTRICTED check.
state_activity_first(self) ==
    LET mower_attributes == get_mower_attributes(self) IN
    IF mower_attributes.mower.state \in {"PAUSED"} THEN STATE_PAUSED
    ELSE IF mower_attributes.mower.state \in {"WAIT_UPDATING", "WAIT_POWER_UP"}
    THEN STATE_IDLE
    ELSE IF mower_attributes.mower.activity \in {"MOWING", "LEAVING"}
    THEN STATE_CLEANING
    ELSE IF mower_attributes.mower.activity = "GOING_HOME" THEN STATE_RETURNING
    ELSE IF \/ mower_attributes.mower.state = "RESTRICTED"
            \/ mower_attributes.mower.activity \in {"PARKED_IN_CS", "CHARGING"}
    THEN STATE_DOCKED
    ELSE IF \/ mower_attributes.mower.state \in
                {"FATAL_ERROR", "ERROR", "ERROR_AT_POWER_UP", "NOT_APPLICABLE",
                 "UNKNOWN", "STOPPED", "OFF"}
            \/ mower_attributes.mower.activity \in
                {"STOPPED_IN_GARDEN", "UNKNOWN", "NOT_APPLICABLE"}
    THEN STATE_ERROR
    ELSE None

\* HusqvarnaAutomowerEntity.state: an ordered list of checks, the first that
\* matches returns; a snapshot no check matches falls off the end (None).
state(self) ==
    LET mower_attributes == get_mower_attributes(self) IN
    IF mower_attributes.mower.state \in {"PAUSED"} THEN STATE_PAUSED
    ELSE IF mower_attributes.mower.state \in {"WAIT_UPDATING", "WAIT_POWER_UP"}
    THEN STATE_IDLE
    ELSE IF \/ mower_attributes.mower.state = "RESTRICTED"
            \/ mower_attributes.mower.activity \in {"PARKED_IN_CS", "CHARGING"}
    THEN STATE_DOCKED
    ELSE IF mower_attributes.mower.activity \in {"MOWING", "LEAVING"}
    THEN STATE_CLEANING
    ELSE IF mower_attributes.mower.activity = "GOING_HOME" THEN STATE_RETURNING
    ELSE IF \/ mower_attributes.mower.state \in
                {"FATAL_ERROR", "ERROR", "ERROR_AT_POWER_UP", "NOT_APPLICABLE",
                 "UNKNOWN", "STOPPED", "OFF"}
            \/ mower_attributes.mower.activity \in
                {"STOPPED_IN_GARDEN", "UNKNOWN", "NOT_APPLICABLE"}
    THEN STATE_ERROR
    ELSE None

\* HusqvarnaAutomowerEntity.error keyed on the vendor state instead of the
\* derived state.
error_on_vendor_state(self) ==
    IF get_mower_attributes(self).mower.state \in
        {"ERROR", "FATAL_ERROR", "ERROR_AT_POWER_UP"}
    THEN DictGet(ERRORCODES, get_mower_attributes(self).mower.errorCode)
    ELSE ""

\* HusqvarnaAutomowerEntity.error
error(self) ==
    IF state(self) = STATE_ERROR
    THEN LET mower_attributes == get_mower_attributes(self) IN
         DictGet(ERRORCODES, mower_attributes.mower.errorCode)
    ELSE ""

\* Python's builtins max and min on two integers.
max(a, b) == IF a >= b THEN a ELSE b
min(a, b) == IF a <= b THEN a ELSE b

\* HusqvarnaAutomowerEntity.battery_level with the lower clamp forgotten.
battery_level_no_floor(self) ==
    min(100, get_mower_attributes(self).battery.batteryPercent)

\* HusqvarnaAutomowerEntity.battery_level
battery_level(self) ==
    max(0, min(100, get_mower_attributes(self).battery.batteryPercent))

(***************************************************************************)
(* Text and time: what str(int), datetime.utcfromtimestamp, dt_util.as_local *)
(* and datetime.strftime do.                                                *)
(***************************************************************************)

\* The decimal digit of d, 0 <= d <= 9.
Digit(d) == SubSeq("0123456789", d + 1, d + 1)

RECURSIVE NatToStr(_)
NatToStr(n) == IF n < 10 THEN Digit(n) ELSE NatToStr(n \div 10) \o Digit(n % 10)

\* str(n) for an integer n: decimal, a leading minus sign when negative.
IntToStr(n) == IF n < 0 THEN "-" \o NatToStr(0 - n) ELSE NatToStr(n)

\* strftime's %H and %M: two digits, zero padded.
TwoDigits(n) == IF n < 10 THEN "0" \o Digit(n) ELSE NatToStr(n)

\* strftime's %a, for weekday 0 (Monday) .. 6 (Sunday).
WeekdayName(w) == <<"Mon", "Tue", "Wed", "Thu", "Fri", "Sat", "Sun">>[w + 1]

\* The host's configured time zone (dt_util.DEFAULT_TIME_ZONE), as its offset
\* from UTC in minutes.
DEFAULT_TIME_ZONE == [utcoffset |-> 120]

\* HusqvarnaAutomowerEntity.__datetime_object: the timestamp (milliseconds)
\* read as a UTC instant, then converted to the host's time zone.  A datetime
\* is its day since 1970-01-01, hour and minute in that zone.
datetime_object(timestamp) ==
    LET seconds == timestamp \div 1000
        localMinutes == (seconds \div 60) + DEFAULT_TIME_ZONE.utcoffset
    IN  [day |-> localMinutes \div 1440,
         hour |-> (localMinutes % 1440) \div 60,
         minute |-> localMinutes % 60,
         utcoffset |-> DEFAULT_TIME_ZONE.utcoffset]

\* datetime.weekday(): 1970-01-01 was a Thursday (3).
weekday(dt) == (dt.day + 3) % 7

\* next_start_dt_obj.strftime(", next start: %a %H:%M")
strftime_next_start(dt) ==
    ", next start: " \o WeekdayName(weekday(dt)) \o " "
        \o TwoDigits(dt.hour) \o ":" \o TwoDigits(dt.minute)

\* next_start_short with the timestamp test forgotten: the suffix is formatted
\* for every timestamp, 0 included.
next_start_short_untested(mower_attributes) ==
    strftime_next_start(
        datetime_object(mower_attributes.planner.nextStartTimestamp))

\* __get_status's next_start_short: "" unless a next start is scheduled.
next_start_short(mower_attributes) ==
    IF mower_attributes.planner.nextStartTimestamp # 0
    THEN strftime_next_start(
            datetime_object(mower_attributes.planner.nextStartTimestamp))
    ELSE ""

\* HusqvarnaAutomowerEntity.__get_status
get_status(self) ==
    LET mower_attributes == get_mower_attributes(self)
        st == mower_attributes.mower.state
        activity == mower_attributes.mower.activity
        reason == mower_attributes.planner.restrictedReason
    IN  IF st = "UNKNOWN" THEN "Unknown"
        ELSE IF st = "NOT_APPLICABLE" THEN "Not applicable"
        ELSE IF st = "PAUSED" THEN "Paused"
        ELSE IF st = "IN_OPERATION" /\ activity = "UNKNOWN" THEN "Unknown"
        ELSE IF st = "IN_OPERATION" /\ activity = "NOT_APPLICABLE"
        THEN "Not applicable"
        ELSE IF st = "IN_OPERATION" /\ activity = "MOWING" THEN "Mowing"
        ELSE IF st = "IN_OPERATION" /\ activity = "GOING_HOME"
        THEN "Going to charging station"
        ELSE IF st = "IN_OPERATION" /\ activity = "CHARGING"
        THEN "Charging" \o next_start_short(mower_attributes)
        ELSE IF st = "IN_OPERATION" /\ activity = "LEAVING"
        THEN "Leaving charging station"
        ELSE IF st = "IN_OPERATION" /\ activity = "PARKED_IN_CS" THEN "Parked"
        ELSE IF st = "IN_OPERATION" /\ activity = "STOPPED_IN_GARDEN"
        THEN "Stopped"
        ELSE IF st = "WAIT_UPDATING" THEN "Updating"
        ELSE IF st = "WAIT_POWER_UP" THEN "Powering up"
        ELSE IF st = "RESTRICTED" /\ reason = "WEEK_SCHEDULE"
        THEN "Schedule" \o next_start_short(mower_attributes)
        ELSE IF st = "RESTRICTED" /\ reason = "PARK_OVERRIDE" THEN "Park override"
        ELSE IF st = "RESTRICTED" /\ reason = "SENSOR" THEN "Weather timer"
        ELSE IF st = "RESTRICTED" /\ reason = "DAILY_LIMIT" THEN "Daily limit"
        ELSE IF st = "RESTRICTED" /\ reason = "NOT_APPLICABLE"
        THEN "Parked until further notice"
        ELSE IF st = "OFF" THEN "Off"
        ELSE IF st = "STOPPED" THEN "Stopped"
        ELSE IF st \in {"ERROR", "FATAL_ERROR", "ERROR_AT_POWER_UP"}
        THEN DictGet(ERRORCODES, mower_attributes.mower.errorCode)
        ELSE "Unknown"

\* HusqvarnaAutomowerEntity.extra_state_attributes
extra_state_attributes(self) ==
    LET mower_attributes == get_mower_attributes(self)
        isError == mower_attributes.mower.state \in
                        {"ERROR", "FATAL_ERROR", "ERROR_AT_POWER_UP"}
        error_message ==
            IF isError
            THEN DictGet(ERRORCODES, mower_attributes.mower.errorCode)
            ELSE None
        error_time ==
            IF isError
            THEN datetime_object(mower_attributes.mower.errorCodeTimestamp)
            ELSE NoneDatetime
        next_start ==
            IF mower_attributes.planner.nextStartTimestamp # 0
            THEN datetime_object(mower_attributes.planner.nextStartTimestamp)
            ELSE NoneDatetime
    IN  [status |-> get_status(self),
         mode |-> mower_attributes.mower.mode,
         activity |-> mower_attributes.mower.activity,
         state |-> mower_attributes.mower.state,
         errorMessage |-> error_message,
         errorTime |-> error_time,
         nextStart |-> next_start,
         action |-> mower_attributes.planner.override.action,
         restrictedReason |-> mower_attributes.planner.restrictedReason]

(***************************************************************************)
(* The command handlers.  A handler runs up to its                         *)
(* `await self.session.action(...)`: the call reaches the session and the  *)
(* coroutine is suspended (pc "awaiting") until the session answers.       *)
(***************************************************************************)

\* The most invocations the host makes in one behaviour.
MaxInvocations == 2

\* The step just taken handed nothing back.
NoRet == [op |-> "none"]

\* What one `await self.session.action(...)` can end with: a normal return,
\* the request failure the handlers catch, or any other exception.
Outcomes == {"ok", "ClientResponseError", "TimeoutError"}

\* The record _LOGGER.error writes in every handler's except clause.
ErrorMessage == "Command couldn't be sent to the command que"

\* json.dumps of a str without characters to escape, of a bool, of an int.
JsonStr(str) == "\"" \o str \o "\""
JsonBool(b) == IF b THEN "true" ELSE "false"
JsonInt(n) == IntToStr(n)

\* self.session.action(self.mower_id, payload, command_type), called by the
\* coroutine of a new invocation, which then awaits the answer.
session_action(self, op, args, payload, command_type) ==
    /\ Len(tasks) < MaxInvocations
    /\ calls' = Append(calls, [caller |-> Len(tasks) + 1,
                               mower_id |-> mower_id(self),
                               payload |-> payload,
                               command_type |-> command_type])
    /\ tasks' = Append(tasks, [op |-> op, self |-> self, args |-> args,
                               pc |-> "awaiting", answer |-> "pending",
                               exception |-> None])
    /\ ret' = NoRet
    /\ UNCHANGED <<data, log>>

\* HusqvarnaAutomowerEntity.async_start
async_start(self) ==
    LET command_type == "actions"
        payload == "{\"data\": {\"type\": \"ResumeSchedule\"}}"
    IN  session_action(self, "start", [none |-> TRUE], payload, command_type)

\* HusqvarnaAutomowerEntity.async_pause
async_pause(self) ==
    LET command_type == "actions"
        payload == "{\"data\": {\"type\": \"Pause\"}}"
    IN  session_action(self, "pause", [none |-> TRUE], payload, command_type)

\* async_stop with async_return_to_base's payload (a copy and paste slip).
async_stop_wrong_payload(self) ==
    LET command_type == "actions"
        payload == "{\"data\": {\"type\": \"ParkUntilFurtherNotice\"}}"
    IN  session_action(self, "stop", [none |-> TRUE], payload, command_type)

\* HusqvarnaAutomowerEntity.async_stop
async_stop(self) ==
    LET command_type == "actions"
        payload == "{\"data\": {\"type\": \"ParkUntilNextSchedule\"}}"
    IN  session_action(self, "stop", [none |-> TRUE], payload, command_type)

\* HusqvarnaAutomowerEntity.async_return_to_base
async_return_to_base(self) ==
    LET command_type == "actions"
        payload == "{\"data\": {\"type\": \"ParkUntilFurtherNotice\"}}"
    IN  session_action(self, "return_to_base", [none |-> TRUE], payload,
                       command_type)

\* HusqvarnaAutomowerEntity.async_park_and_start
async_park_and_start(self, command, duration) ==
    LET command_type == "actions"
        payload == "{\"data\": {\"type\": " \o JsonStr(command)
                    \o ", \"attributes\": {\"duration\": " \o JsonInt(duration)
                    \o "}}}"
    IN  session_action(self, "park_and_start",
                       [command |-> command, duration |-> duration],
                       payload, command_type)

\* calendar_payload with tuesday's flag written from monday's argument.
calendar_payload_monday_twice(start_in_minutes, duration, monday, tuesday, wednesday, thursday, friday, saturday, sunday) ==
    "{\"data\": {\"type\": \"calendar\", \"attributes\": {\"tasks\": [{"
        \o "\"start\": " \o JsonInt(start_in_minutes)
        \o ", \"duration\": " \o JsonInt(duration)
        \o ", \"monday\": " \o JsonBool(monday)
        \o ", \"tuesday\": " \o JsonBool(monday)
        \o ", \"wednesday\": " \o JsonBool(wednesday)
        \o ", \"thursday\": " \o JsonBool(thursday)
        \o ", \"friday\": " \o JsonBool(friday)
        \o ", \"saturday\": " \o JsonBool(saturday)
        \o ", \"sunday\": " \o JsonBool(sunday)
        \o "}]}}}"

\* json.dumps of the calendar document: one task in data.attributes.tasks.
calendar_payload(start_in_minutes, duration, monday, tuesday, wednesday, thursday, friday, saturday, sunday) ==
    "{\"data\": {\"type\": \"calendar\", \"attributes\": {\"tasks\": [{"
        \o "\"start\": " \o JsonInt(start_in_minutes)
        \o ", \"duration\": " \o JsonInt(duration)
        \o ", \"monday\": " \o JsonBool(monday)
        \o ", \"tuesday\": " \o JsonBool(tuesday)
        \o ", \"wednesday\": " \o JsonBool(wednesday)
        \o ", \"thursday\": " \o JsonBool(thursday)
        \o ", \"friday\": " \o JsonBool(friday)
        \o ", \"saturday\": " \o JsonBool(saturday)
        \o ", \"sunday\": " \o JsonBool(sunday)
        \o "}]}}}"

\* raise ConditionErrorMessage(...): the invocation ends before any await.
raise_ConditionErrorMessage(self, op, args) ==
    /\ Len(tasks) < MaxInvocations
    /\ tasks' = Append(tasks, [op |-> op, self |-> self, args |-> args,
                               pc |-> "raised", answer |-> "none",
                               exception |-> "ConditionErrorMessage"])
    /\ ret' = NoRet
    /\ UNCHANGED <<data, calls, log>>

\* async_custom_calendar_command with the range test `duration < 0`: equal
\* times pass.
async_custom_calendar_command_equal_passes(self, start, end, monday, tuesday, wednesday, thursday, friday, saturday, sunday) ==
    LET start_in_minutes == start.hour * 60 + start.minute
        end_in_minutes == end.hour * 60 + end.minute
        duration == end_in_minutes - start_in_minutes
        args == [start |-> start, end |-> end,
                 days |-> <<monday, tuesday, wednesday, thursday, friday,
                            saturday, sunday>>]
    IN  IF duration < 0
        THEN raise_ConditionErrorMessage(self, "calendar", args)
        ELSE session_action(self, "calendar", args,
                calendar_payload(start_in_minutes, duration, monday, tuesday,
                                 wednesday, thursday, friday, saturday, sunday),
                "calendar")

\* HusqvarnaAutomowerEntity.async_custom_calendar_command
async_custom_calendar_command(self, start, end, monday, tuesday, wednesday, thursday, friday, saturday, sunday) ==
    LET start_in_minutes == start.hour * 60 + start.minute
        end_in_minutes == end.hour * 60 + end.minute
        duration == end_in_minutes - start_in_minutes
        args == [start |-> start, end |-> end,
                 days |-> <<monday, tuesday, wednesday, thursday, friday,
                            saturday, sunday>>]
    IN  IF duration <= 0
        THEN raise_ConditionErrorMessage(self, "calendar", args)
        ELSE session_action(self, "calendar", args,
                calendar_payload(start_in_minutes, duration, monday, tuesday,
                                 wednesday, thursday, friday, saturday, sunday),
                "calendar")

\* async_custom_command with the payload and the command type passed to
\* session.action in each other's place.
async_custom_command_swapped(self, command_type, json_string) ==
    session_action(self, "custom_command",
                   [command_type |-> command_type, json_string |-> json_string],
                   command_type, json_string)

\* HusqvarnaAutomowerEntity.async_custom_command
async_custom_command(self, command_type, json_string) ==
    session_action(self, "custom_command",
                   [command_type |-> command_type, json_string |-> json_string],
                   json_string, command_type)

\* resume without the except clause: ClientResponseError leaves the handler
\* like any other exception, and nothing is logged.
resume_without_except(i, outcome) ==
    /\ i \in DOMAIN tasks
    /\ tasks[i].pc = "awaiting"
    /\ tasks' = [tasks EXCEPT ![i] =
                    [@ EXCEPT !.answer = outcome,
                              !.pc = IF outcome = "ok" THEN "returned" ELSE "raised",
                              !.exception = IF outcome = "ok" THEN None ELSE outcome]]
    /\ log' = log
    /\ ret' = NoRet
    /\ UNCHANGED <<data, calls>>

\* The handlers' try/except around the await, when the session answers the
\* call of invocation i: a normal return and ClientResponseError both let the
\* handler return (the latter after one _LOGGER.error); any other exception
\* leaves the handler.
resume(i, outcome) ==
    /\ i \in DOMAIN tasks
    /\ tasks[i].pc = "awaiting"
    /\ tasks' = [tasks EXCEPT ![i] =
                    [@ EXCEPT !.answer = outcome,
                              !.pc = IF outcome \in {"ok", "ClientResponseError"}
                                     THEN "returned" ELSE "raised",
                              !.exception =
                                    IF outcome \in {"ok", "ClientResponseError"}
                                    THEN None ELSE outcome]]
    /\ log' = IF outcome = "ClientResponseError"
              THEN Append(log, ErrorMessage) ELSE log
    /\ ret' = NoRet
    /\ UNCHANGED <<data, calls>>

(***************************************************************************)
(* The session's side: the snapshots it holds and how polling changes them. *)
(***************************************************************************)

\* The ids of the account's mowers, in the order of session.data["data"].
MowerIds == <<"mower-a", "mower-b">>

\* Monday 1970-01-05 06:00 UTC and Wednesday 1970-01-07 22:59 UTC, in ms.
Timestamps == {367200000, 601140000}

\* planner.nextStartTimestamp: 0 when no next start is scheduled.
NextStartTimestamps == {0} \cup Timestamps

\* (mower.errorCode, mower.errorCodeTimestamp) pairs; 99 is not in ERRORCODES.
ErrorReports == {<<0, 0>>, <<1, 367200000>>, <<99, 601140000>>}

\* How far below 0 and above 100 the reported battery.batteryPercent goes.
BatterySlack == 10

BatteryPercents == (0 - BatterySlack) .. (100 + BatterySlack)

\* A mower parked in its charging station by the week schedule.
ParkedAttributes ==
    [mower |-> [state |-> "RESTRICTED", activity |-> "PARKED_IN_CS",
                errorCode |-> 0, errorCodeTimestamp |-> 0, mode |-> "MAIN_AREA"],
     battery |-> [batteryPercent |-> 100],
     planner |-> [nextStartTimestamp |-> 367200000,
                  restrictedReason |-> "WEEK_SCHEDULE",
                  override |-> [action |-> "NOT_ACTIVE"]]]

\* session.data["data"] of an account with n mowers; idx counts from 0.
SessionData(n) ==
    [idx \in 0 .. (n - 1) |->
        [id |-> MowerIds[idx + 1], attributes |-> ParkedAttributes]]

\* A poll brings a new mower.state and mower.activity.
SetMowerStatus(idx, st, activity) ==
    /\ data' = [data EXCEPT ![idx].attributes.mower.state = st,
                            ![idx].attributes.mower.activity = activity]
    /\ ret' = NoRet
    /\ UNCHANGED <<calls, tasks, log>>

\* A poll brings a new mower.errorCode and mower.errorCodeTimestamp.
SetMowerError(idx, report) ==
    /\ data' = [data EXCEPT ![idx].attributes.mower.errorCode = report[1],
                            ![idx].attributes.mower.errorCodeTimestamp = report[2]]
    /\ ret' = NoRet
    /\ UNCHANGED <<calls, tasks, log>>

\* A poll brings a new planner.nextStartTimestamp and planner.restrictedReason.
SetPlanner(idx, timestamp, reason) ==
    /\ data' = [data EXCEPT ![idx].attributes.planner.nextStartTimestamp = timestamp,
                            ![idx].attributes.planner.restrictedReason = reason]
    /\ ret' = NoRet
    /\ UNCHANGED <<calls, tasks, log>>

\* A poll brings a new battery.batteryPercent.
SetBattery(idx, percent) ==
    /\ data' = [data EXCEPT ![idx].attributes.battery.batteryPercent = percent]
    /\ ret' = NoRet
    /\ UNCHANGED <<calls, tasks, log>>

(***************************************************************************)
(* The host reads a property of entity `self`.  A property runs without     *)
(* suspension, so the read is one step; ret holds what it returned and the  *)
(* snapshot it was computed from is still data[self].                       *)
(***************************************************************************)
ReadState(self) ==
    /\ ret' = [op |-> "state", self |-> self, value |-> state(self)]
    /\ UNCHANGED <<data, calls, tasks, log>>

ReadError(self) ==
    /\ ret' = [op |-> "error", self |-> self, value |-> error(self)]
    /\ UNCHANGED <<data, calls, tasks, log>>

ReadBatteryLevel(self) ==
    /\ ret' = [op |-> "battery_level", self |-> self, value |-> battery_level(self)]
    /\ UNCHANGED <<data, calls, tasks, log>>

ReadExtraStateAttributes(self) ==
    /\ ret' = [op |-> "extra_state_attributes", self |-> self,
               value |-> extra_state_attributes(self)]
    /\ UNCHANGED <<data, calls, tasks, log>>

(***************************************************************************)
(* The inputs of the services.                                             *)
(***************************************************************************)
ParkCommands == {"Park", "Start"}
ParkDurations == {30}
CommandTypes == {"actions", "settings"}
JsonStrings == {"{\"data\": {\"type\": \"Pause\"}}", "not json"}

\* cv.time values: datetime.time(hour, minute).
Time(h, m) == [hour |-> h, minute |-> m]
FewTimes == {Time(8, 0), Time(8, 30)}
ManyTimes == {Time(h, m) : h \in {0, 7, 8, 23}, m \in {0, 30, 59}}

\* The seven weekday flags, monday first.
FewDays == {<<TRUE, FALSE, TRUE, FALSE, TRUE, FALSE, FALSE>>}
AllDays == [1 .. 7 -> BOOLEAN]

Calendar(self, times, days) ==
    \E start \in times, end \in times, d \in days :
        async_custom_calendar_command(self, start, end, d[1], d[2], d[3], d[4],
                                      d[5], d[6], d[7])

(***************************************************************************)
(* Spec: the host's commands on an account with two mowers, invocations     *)
(* overlapping freely; the session answers them in any order.              *)
(***************************************************************************)
Init ==
    /\ data = SessionData(2)
    /\ calls = <<>>
    /\ tasks = <<>>
    /\ log = <<>>
    /\ ret = NoRet

Start == \E self \in DOMAIN data : async_start(self)
Pause == \E self \in DOMAIN data : async_pause(self)
Stop == \E self \in DOMAIN data : async_stop(self)
ReturnToBase == \E self \in DOMAIN data : async_return_to_base(self)
ParkAndStart ==
    \E self \in DOMAIN data, command \in ParkCommands, duration \in ParkDurations :
        async_park_and_start(self, command, duration)
CustomCalendarCommand == \E self \in DOMAIN data : Calendar(self, FewTimes, FewDays)
CustomCommand ==
    \E self \in DOMAIN data, command_type \in CommandTypes,
       json_string \in JsonStrings :
        async_custom_command(self, command_type, json_string)
Answer == \E i \in DOMAIN tasks, outcome \in Outcomes : resume(i, outcome)

Next ==
    \/ Start
    \/ Pause
    \/ Stop
    \/ ReturnToBase
    \/ ParkAndStart
    \/ CustomCalendarCommand
    \/ CustomCommand
    \/ Answer

Spec == Init /\ [][Next]_vars

(***************************************************************************)
(* SpecCalendar: one calendar service call, over every pair of times of     *)
(* ManyTimes and every combination of weekday flags.                        *)
(***************************************************************************)
CalendarCall ==
    /\ tasks = <<>>
    /\ \E self \in DOMAIN data : Calendar(self, ManyTimes, AllDays)

NextCalendar == CalendarCall \/ Answer

SpecCalendar == Init /\ [][NextCalendar]_vars

(***************************************************************************)
(* SpecView: the host reads the properties of a mower whose snapshot the    *)
(* session keeps refreshing, and may send it a start command.               *)
(***************************************************************************)
InitView ==
    /\ data = SessionData(1)
    /\ calls = <<>>
    /\ tasks = <<>>
    /\ log = <<>>
    /\ ret = NoRet

PollStatus ==
    \E idx \in DOMAIN data, st \in MowerStates, activity \in MowerActivities :
        SetMowerStatus(idx, st, activity)
PollError == \E idx \in DOMAIN data, report \in ErrorReports : SetMowerError(idx, report)
PollPlanner ==
    \E idx \in DOMAIN data, timestamp \in NextStartTimestamps,
       reason \in RestrictedReasons :
        SetPlanner(idx, timestamp, reason)
PollBattery ==
    \E idx \in DOMAIN data, percent \in BatteryPercents : SetBattery(idx, percent)

State == \E self \in DOMAIN data : ReadState(self)
Error == \E self \in DOMAIN data : ReadError(self)
BatteryLevel == \E self \in DOMAIN data : ReadBatteryLevel(self)
ExtraStateAttributes == \E self \in DOMAIN data : ReadExtraStateAttributes(self)
StartOnce == tasks = <<>> /\ Start

NextView ==
    \/ PollStatus
    \/ PollError
    \/ PollPlanner
    \/ State
    \/ Error
    \/ ExtraStateAttributes
    \/ StartOnce
    \/ Answer

SpecView == InitView /\ [][NextView]_vars

(***************************************************************************)
(* SpecBattery: the reported battery percent ranges beyond 0..100.          *)
(***************************************************************************)
NextBattery == PollBattery \/ BatteryLevel

SpecBattery == InitView /\ [][NextBattery]_vars

(***************************************************************************)
(* Reading a payload back: the text tools the properties below use.        *)
(***************************************************************************)

\* The places where pat occurs in s.
Occurrences(s, pat) ==
    {i \in 1 .. (Len(s) - Len(pat) + 1) : SubSeq(s, i, i + Len(pat) - 1) = pat}

Contains(s, pat) == Occurrences(s, pat) # {}

Least(S) == CHOOSE x \in S : \A y \in S : x <= y

\* The text of the JSON member "key" of object text s: from after `"key": `
\* to the next "," or "}" (scalars only).
Member(s, key) ==
    LET k == "\"" \o key \o "\": "
        from == Least(Occurrences(s, k)) + Len(k)
        ends == {i \in from .. Len(s) : SubSeq(s, i, i) \in {",", "}"}}
    IN  SubSeq(s, from, Least(ends) - 1)

\* The value of the decimal digit c.
DigitValue(c) == Least(Occurrences("0123456789", c)) - 1

\* The decimal numeral v (one digit or more) read as a natural number.
RECURSIVE Numeral(_)
Numeral(v) ==
    IF Len(v) = 1 THEN DigitValue(v)
    ELSE 10 * Numeral(SubSeq(v, 1, Len(v) - 1)) + DigitValue(SubSeq(v, Len(v), Len(v)))

\* The calls session.action received from invocation i.
CallsOf(i) == {j \in DOMAIN calls : calls[j].caller = i}

Minutes(t) == 60 * t.hour + t.minute

ErrorStates == {"ERROR", "FATAL_ERROR", "ERROR_AT_POWER_UP"}

\* The snapshot the value in ret was computed from.
RetAttributes == data[ret.self].attributes

(***************************************************************************)
(* The properties.                                                         *)
(***************************************************************************)

\* C1: the state mapper is total: for every snapshot whose mower.state is one
\* of the 12 vendor states and whose mower.activity is one of the 8 vendor
\* activities, the state property yields one of Cleaning, Docked, Error,
\* Idle, Paused, Returning (never None), whatever refreshes and commands
\* came before the read.
C1_StateTotal ==
    /\ \A self \in DOMAIN data :
        (/\ data[self].attributes.mower.state \in MowerStates
         /\ data[self].attributes.mower.activity \in MowerActivities)
            => state(self) \in DeviceStates
    /\ ret.op = "state" => ret.value \in DeviceStates

\* C1 witness: the last rule is what catches IN_OPERATION / STOPPED_IN_GARDEN,
\* read after a start command was sent and failed.
C1_Witness ==
    /\ ret.op = "state"
    /\ RetAttributes.mower.state = "IN_OPERATION"
    /\ RetAttributes.mower.activity = "STOPPED_IN_GARDEN"
    /\ ret.value = STATE_ERROR
    /\ tasks # <<>>
    /\ tasks[1].answer = "ClientResponseError"

\* C2: the mower.state checks precede the activity checks: a PAUSED snapshot
\* reads Paused and a RESTRICTED snapshot reads Docked, for every activity.
C2_StateBeforeActivity ==
    ret.op = "state" =>
        /\ RetAttributes.mower.state = "PAUSED" => ret.value = STATE_PAUSED
        /\ RetAttributes.mower.state = "RESTRICTED" => ret.value = STATE_DOCKED

\* C2 witness: RESTRICTED read as Docked although the activity is MOWING.
C2_Witness ==
    /\ ret.op = "state"
    /\ RetAttributes.mower.state = "RESTRICTED"
    /\ RetAttributes.mower.activity = "MOWING"
    /\ ret.value = STATE_DOCKED

\* C3: when the session's action fails with ClientResponseError, the handler
\* returns normally, one failure record is logged, session.action is not
\* called again, and neither the snapshots nor any other invocation change.
C3_FailureSwallowed ==
    [][\A i \in DOMAIN tasks :
        (tasks[i].pc = "awaiting" /\ tasks'[i].answer = "ClientResponseError")
            => /\ tasks'[i].pc = "returned"
               /\ tasks'[i].exception = None
               /\ log' = Append(log, ErrorMessage)
               /\ calls' = calls
               /\ Cardinality(CallsOf(i)) = 1
               /\ data' = data
               /\ Len(tasks') = Len(tasks)
               /\ \A k \in DOMAIN tasks : k # i => tasks'[k] = tasks[k]]_vars

\* C3 witness: a parkAndStart and a calendar command (valid range) have both
\* failed and returned; two failure records are in the log.
C3_Witness ==
    /\ Len(tasks) = 2
    /\ {tasks[1].op, tasks[2].op} = {"park_and_start", "calendar"}
    /\ \A i \in DOMAIN tasks :
        tasks[i].answer = "ClientResponseError" /\ tasks[i].pc = "returned"
    /\ log = <<ErrorMessage, ErrorMessage>>
    /\ Len(calls) = 2

\* C4: a calendar command whose end is not after its start (equal times
\* included) raises ConditionErrorMessage and session.action is never called
\* for that invocation.
C4_InvalidRangeFailsFast ==
    \A i \in DOMAIN tasks :
        (tasks[i].op = "calendar"
            /\ Minutes(tasks[i].args.end) - Minutes(tasks[i].args.start) <= 0)
        => /\ tasks[i].pc = "raised"
           /\ tasks[i].exception = "ConditionErrorMessage"
           /\ CallsOf(i) = {}

\* C4 witness: start = end = 08:30 was refused and nothing reached the session.
C4_Witness ==
    /\ Len(tasks) = 1
    /\ tasks[1].op = "calendar"
    /\ tasks[1].args.start = Time(8, 30)
    /\ tasks[1].args.end = Time(8, 30)
    /\ tasks[1].exception = "ConditionErrorMessage"
    /\ calls = <<>>

\* C5: a calendar command whose end is after its start forwards exactly one
\* request, of command type "calendar", for the entity's mower id, whose
\* payload holds one task with start = 60*start.hour + start.minute,
\* duration = end - start in minutes (at least 1, start + duration at most
\* 1439), and the seven weekday flags of the caller, each in its own member.
C5_CalendarRequest ==
    \A i \in DOMAIN tasks :
        (tasks[i].op = "calendar"
            /\ Minutes(tasks[i].args.end) > Minutes(tasks[i].args.start))
        => /\ Cardinality(CallsOf(i)) = 1
           /\ \A j \in CallsOf(i) :
                LET p == calls[j].payload
                    a == tasks[i].args
                    startOf == Numeral(Member(p, "start"))
                    durationOf == Numeral(Member(p, "duration"))
                    names == <<"monday", "tuesday", "wednesday", "thursday",
                               "friday", "saturday", "sunday">>
                IN  /\ calls[j].command_type = "calendar"
                    /\ calls[j].mower_id = data[tasks[i].self].id
                    /\ Member(p, "type") = "\"calendar\""
                    /\ Cardinality(Occurrences(p, "\"tasks\": [{")) = 1
                    /\ Cardinality(Occurrences(p, "{\"start\": ")) = 1
                    /\ Cardinality(Occurrences(p, "}]")) = 1
                    /\ startOf = 60 * a.start.hour + a.start.minute
                    /\ durationOf = Minutes(a.end) - startOf
                    /\ durationOf >= 1
                    /\ startOf + durationOf <= 1439
                    /\ \A d \in 1 .. 7 :
                        /\ Cardinality(Occurrences(p, "\"" \o names[d] \o "\": ")) = 1
                        /\ Member(p, names[d]) = IF a.days[d] THEN "true" ELSE "false"

\* C5 witness: 08:00 to 08:30 on Tuesday and Sunday went out as start 480,
\* duration 30.
C5_Witness ==
    /\ Len(tasks) = 1
    /\ tasks[1].op = "calendar"
    /\ tasks[1].args.start = Time(8, 0)
    /\ tasks[1].args.end = Time(8, 30)
    /\ Len(calls) = 1
    /\ calls[1].command_type = "calendar"
    /\ calls[1].payload =
        "{\"data\": {\"type\": \"calendar\", \"attributes\": {\"tasks\": [{\"start\": 480, \"duration\": 30, \"monday\": false, \"tuesday\": true, \"wednesday\": false, \"thursday\": false, \"friday\": false, \"saturday\": false, \"sunday\": true}]}}}"

\* The payload type fixed for each of the four plain verbs.
VerbType(op) ==
    CASE op = "start" -> "ResumeSchedule"
      [] op = "pause" -> "Pause"
      [] op = "stop" -> "ParkUntilNextSchedule"
      [] op = "return_to_base" -> "ParkUntilFurtherNotice"

\* C6: under any interleaving of start, pause, stop and returnToBase, every
\* invocation makes exactly one call of session.action, with its own entity's
\* mower id, command type "actions" and the payload type of its verb; every
\* call the session received comes from one invocation.
C6_OneRequestPerInvocation ==
    /\ \A i \in DOMAIN tasks :
        tasks[i].op \in {"start", "pause", "stop", "return_to_base"}
        => /\ Cardinality(CallsOf(i)) = 1
           /\ \A j \in CallsOf(i) :
                /\ calls[j].mower_id = data[tasks[i].self].id
                /\ calls[j].command_type = "actions"
                /\ calls[j].payload =
                    "{\"data\": {\"type\": \"" \o VerbType(tasks[i].op) \o "\"}}"
    /\ \A j \in DOMAIN calls : calls[j].caller \in DOMAIN tasks

\* C6 witness: a stop for the first mower and a start for the second are in
\* flight together; the second invocation was answered first.
C6_Witness ==
    /\ Len(tasks) = 2
    /\ tasks[1].op = "stop" /\ tasks[1].self = 0 /\ tasks[1].pc = "awaiting"
    /\ tasks[2].op = "start" /\ tasks[2].self = 1 /\ tasks[2].pc = "returned"
    /\ calls[1].mower_id = "mower-a"
    /\ calls[2].mower_id = "mower-b"

\* C7: customCommand passes through: its one call of session.action receives
\* the caller's payload string and the caller's command type unchanged, with
\* the entity's mower id.
C7_CustomCommandVerbatim ==
    \A i \in DOMAIN tasks :
        tasks[i].op = "custom_command"
        => /\ Cardinality(CallsOf(i)) = 1
           /\ \A j \in CallsOf(i) :
                /\ calls[j].payload = tasks[i].args.json_string
                /\ calls[j].command_type = tasks[i].args.command_type
                /\ calls[j].mower_id = data[tasks[i].self].id

\* C7 witness: a payload that is not JSON went out under "settings".
C7_Witness ==
    \E i \in DOMAIN tasks :
        /\ tasks[i].op = "custom_command"
        /\ tasks[i].args.json_string = "not json"
        /\ tasks[i].args.command_type = "settings"
        /\ \E j \in CallsOf(i) : calls[j].payload = "not json"

\* C8: the error property depends only on the derived state: when it is
\* Error the result is the table's message for mower.errorCode (None when
\* the code is not in the table); otherwise it is "", also for a vendor
\* error state whose activity makes the derived state Docked, Cleaning or
\* Returning.
C8_ErrorReporter ==
    ret.op = "error" =>
        LET a == RetAttributes
            code == a.mower.errorCode
        IN  /\ state(ret.self) = STATE_ERROR =>
                ret.value = IF code \in DOMAIN ERRORCODES
                            THEN ERRORCODES[code] ELSE None
            /\ state(ret.self) # STATE_ERROR => ret.value = ""
            /\ (a.mower.state \in ErrorStates
                    /\ a.mower.activity \in {"PARKED_IN_CS", "CHARGING", "MOWING",
                                             "LEAVING", "GOING_HOME"})
                => ret.value = ""

\* C8 witness: vendor state ERROR with code 1 while CHARGING reads Docked,
\* and the error property returned "".
C8_Witness ==
    /\ ret.op = "error"
    /\ RetAttributes.mower.state = "ERROR"
    /\ RetAttributes.mower.activity = "CHARGING"
    /\ RetAttributes.mower.errorCode = 1
    /\ ret.value = ""

\* C9: for every snapshot with planner.nextStartTimestamp = 0 the nextStart
\* attribute is None and the status text has no "next start" suffix: the
\* CHARGING branch gives exactly "Charging", the WEEK_SCHEDULE branch exactly
\* "Schedule".
C9_NoNextStart ==
    (ret.op = "extra_state_attributes"
        /\ RetAttributes.planner.nextStartTimestamp = 0)
    => /\ ret.value.nextStart = NoneDatetime
       /\ ~Contains(ret.value.status, "next start")
       /\ (RetAttributes.mower.state = "IN_OPERATION"
            /\ RetAttributes.mower.activity = "CHARGING")
           => ret.value.status = "Charging"
       /\ (RetAttributes.mower.state = "RESTRICTED"
            /\ RetAttributes.planner.restrictedReason = "WEEK_SCHEDULE")
           => ret.value.status = "Schedule"

\* C9 witness: charging with no next start scheduled.
C9_Witness ==
    /\ ret.op = "extra_state_attributes"
    /\ RetAttributes.planner.nextStartTimestamp = 0
    /\ RetAttributes.mower.state = "IN_OPERATION"
    /\ RetAttributes.mower.activity = "CHARGING"
    /\ ret.value.status = "Charging"
    /\ ret.value.nextStart = NoneDatetime

\* C10: the battery level is the snapshot's batteryPercent clamped to 0..100:
\* 0 below 0, 100 above 100, the value itself in between.
C10_BatteryClamped ==
    ret.op = "battery_level" =>
        LET p == RetAttributes.battery.batteryPercent
        IN  /\ ret.value \in 0 .. 100
            /\ p < 0 => ret.value = 0
            /\ p > 100 => ret.value = 100
            /\ (0 <= p /\ p <= 100) => ret.value = p

\* C10 witness: a reported -5 was read as 0.
C10_Witness ==
    /\ ret.op = "battery_level"
    /\ RetAttributes.battery.batteryPercent = -5
    /\ ret.value = 0

====
